---- MODULE Spec2Model ----
(***************************************************************************)
(* A model of src/py/utils.py of CBCT_seg: the file readers and writers,   *)
(* the slicing of a volume into PNG files and its reconstruction, the      *)
(* intensity normalisation, the shift augmentation, the augment call and   *)
(* the tf.data pipeline built by create_dataset.                           *)
(*                                                                         *)
(* A Python string is a sequence of one-character strings, so that         *)
(* `'.nii' in filepath`, str.replace, str.split, re.split and glob's       *)
(* prefix match are computed character by character as Python does.        *)
(***************************************************************************)
EXTENDS Integers, Sequences, FiniteSets, TLC

VARIABLES
    fs,        \* the file system: canonical path -> [kind, gz, data]
    ioOp,      \* the last ReadFile / SaveFile call and what it did
    ioCalls,   \* number of ReadFile / SaveFile calls made so far
    hist,      \* the Deconstruction / Reconstruction calls made so far
    recon,     \* the last Reconstruction call and the volume it returned
    shiftIn,   \* the array handed to _shift
    shiftCall, \* the last _shift call: its arguments, result and input after
    normIn,    \* the pixels of the file ProcessDataset reads
    normOut,   \* the last ProcessDataset call and the array it returned
    aug,       \* the augment calls: seeds drawn, parameters applied to x, y
    pN,        \* create_dataset: the number of input pairs, len(x)
    pB,        \* BATCH_SIZE
    nextIn,    \* the next input index the parallel map hands to a worker
    running,   \* the input indices whose augment call is running
    finished,  \* the indices whose augment call returned, not yet passed on
    mapOut,    \* the next index the map passes on (it keeps the input order)
    batchBuf,  \* the batch being filled
    nBatches,  \* the number of batches formed
    shufBuf,   \* the shuffle buffer, a set of batches
    prefetchBuf, \* the prefetch buffer, a queue of batches
    emitted    \* the batches the consumer got, in order

ioVars    == <<fs, ioOp, ioCalls>>
sliceVars == <<hist, recon>>
fileVars  == <<fs, ioOp, ioCalls, hist, recon>>
shiftVars == <<shiftIn, shiftCall>>
normVars  == <<normIn, normOut>>
augVars   == <<aug>>
pipeVars  == <<pN, pB, nextIn, running, finished, mapOut, batchBuf, nBatches,
               shufBuf, prefetchBuf, emitted>>
vars      == <<fileVars, shiftVars, normVars, augVars, pipeVars>>

(***************************************************************************)
(* Python strings                                                          *)
(***************************************************************************)
ExtNii  == <<".", "n", "i", "i">>
ExtGipl == <<".", "g", "i", "p", "l">>
ExtNrrd == <<".", "n", "r", "r", "d">>
ExtPng  == <<".", "p", "n", "g">>
ExtGz   == <<".", "g", "z">>
ExtTxt  == <<".", "t", "x", "t">>

\* pat in s
Contains(s, pat) ==
    \E i \in 1..(Len(s) - Len(pat) + 1) : SubSeq(s, i, i + Len(pat) - 1) = pat

\* s.startswith(pat)
StartsWith(s, pat) == Len(s) >= Len(pat) /\ SubSeq(s, 1, Len(pat)) = pat

\* s.endswith(pat)
EndsWith(s, pat) ==
    Len(s) >= Len(pat) /\ SubSeq(s, Len(s) - Len(pat) + 1, Len(s)) = pat

\* s.replace(old, ''): the non-overlapping occurrences of old, found left to
\* right, are removed; the text left over is not scanned again.
RECURSIVE StrRemove(_, _)
StrRemove(s, old) ==
    IF Len(s) < Len(old) THEN s
    ELSE IF SubSeq(s, 1, Len(old)) = old
         THEN StrRemove(SubSeq(s, Len(old) + 1, Len(s)), old)
         ELSE <<Head(s)>> \o StrRemove(Tail(s), old)

\* The positions of the characters of s that are in seps.
SepPositions(s, seps) == {i \in 1..Len(s) : s[i] \in seps}

SetMax(S) == CHOOSE m \in S : \A x \in S : x <= m
SetMin(S) == CHOOSE m \in S : \A x \in S : m <= x

\* os.path.basename(p): what follows the last '/'.
Basename(p) ==
    LET P == SepPositions(p, {"/"})
    IN  IF P = {} THEN p ELSE SubSeq(p, SetMax(P) + 1, Len(p))

\* os.path.dirname(p): what precedes the last '/' ('' when there is none).
Dirname(p) ==
    LET P == SepPositions(p, {"/"})
    IN  IF P = {} THEN <<>> ELSE SubSeq(p, 1, SetMax(P) - 1)

\* s.split(sep)[0] and, for several separators, re.split('a|b', s)[0].
SplitFirst(s, seps) ==
    LET P == SepPositions(s, seps)
    IN  IF P = {} THEN s ELSE SubSeq(s, 1, SetMin(P) - 1)

\* re.split(seps, s): the pieces between the separators, empty ones kept.
RECURSIVE ReSplit(_, _)
ReSplit(s, seps) ==
    LET P == SepPositions(s, seps)
    IN  IF P = {} THEN <<s>>
        ELSE <<SubSeq(s, 1, SetMin(P) - 1)>>
             \o ReSplit(SubSeq(s, SetMin(P) + 1, Len(s)), seps)

Digits == <<"0", "1", "2", "3", "4", "5", "6", "7", "8", "9">>

\* str(z) for z >= 0.
RECURSIVE Str(_)
Str(z) == IF z < 10 THEN <<Digits[z + 1]>>
          ELSE Str(z \div 10) \o <<Digits[(z % 10) + 1]>>

IsDigit(c) == \E d \in 1..10 : Digits[d] = c
DigitValue(c) == (CHOOSE d \in 1..10 : Digits[d] = c) - 1

\* int(s) accepts a non-empty string of decimal digits (no sign, blank or
\* underscore survives the split that feeds it) and raises ValueError on
\* anything else.
IntParses(s) == Len(s) > 0 /\ \A i \in 1..Len(s) : IsDigit(s[i])

RECURSIVE ParseInt(_)
ParseInt(s) == IF Len(s) = 0 THEN 0
          ELSE 10 * ParseInt(SubSeq(s, 1, Len(s) - 1)) + DigitValue(s[Len(s)])

\* os.path.normpath on a relative path without '..': empty and '.'
\* components are dropped, the rest are joined by single slashes.
RECURSIVE JoinComponents(_)
JoinComponents(cs) ==
    IF Len(cs) = 0 THEN <<>>
    ELSE IF Len(cs) = 1 THEN cs[1]
    ELSE cs[1] \o <<"/">> \o JoinComponents(Tail(cs))

Normpath(p) ==
    LET cs   == ReSplit(p, {"/"})
        keep == SelectSeq(cs, LAMBDA c : c # <<>> /\ c # <<".">>)
    IN  IF Len(keep) = 0 THEN <<".">> ELSE JoinComponents(keep)

PathJoin(dir, name) == dir \o <<"/">> \o name

(***************************************************************************)
(* The file system and the I/O libraries                                   *)
(***************************************************************************)
\* The directories that exist; files are written into existing directories
\* only, as the libraries do not create them.
ExistingDirs == { <<"d">>, <<"d", ".", "g", "z">>, <<"r", ".", "n", "i", "i">> }

NoData == <<<<>>, 0>>

File(kind, gz, data) == [kind |-> kind, gz |-> gz, data |-> data]

Exists(files, p) == Normpath(p) \in DOMAIN files

DirExists(p) == Dirname(Normpath(p)) \in ExistingDirs \cup {<<>>}

Put(files, p, f) ==
    [q \in (DOMAIN files) \cup {Normpath(p)} |->
        IF q = Normpath(p) THEN f ELSE files[q]]

Del(files, p) == [q \in (DOMAIN files) \ {Normpath(p)} |-> files[q]]

\* What each reader decodes: nibabel reads NIfTI, gzip-compressed or not;
\* medpy, pynrrd and skimage read their own uncompressed format.
ReaderKind(reader) ==
    CASE reader = "Read_nifti" -> "nifti"
      [] reader = "Read_gipl"  -> "gipl"
      [] reader = "Read_nrrd"  -> "nrrd"
      [] reader = "Read_png"   -> "png"

\* A library reader returns when the file exists and holds its format, and
\* raises otherwise.
ReaderAccepts(files, reader, p) ==
    /\ Exists(files, p)
    /\ files[Normpath(p)].kind = ReaderKind(reader)
    /\ (files[Normpath(p)].gz => reader = "Read_nifti")

ReadDispatch ==
    << <<ExtNii,  "Read_nifti">>, <<ExtGipl, "Read_gipl">>,
       <<ExtNrrd, "Read_nrrd">>,  <<ExtPng,  "Read_png">> >>

\* Read_png returns the image alone: header keeps the value it had.
ReaderHeader(reader, header) ==
    IF reader = "Read_png" THEN header ELSE ReaderKind(reader)

\* ReadFile, one `if` after the other. st: the locals img and header, the
\* readers called and the outcome so far.
RECURSIVE ReadSteps(_, _, _, _)
ReadSteps(files, filepath, i, st) ==
    IF i > Len(ReadDispatch)
    THEN [st EXCEPT !.outcome =
             IF st.bound THEN "returned" ELSE "UnboundLocalError"]
    ELSE LET ext    == ReadDispatch[i][1]
             reader == ReadDispatch[i][2]
         IN  IF ~Contains(filepath, ext)
             THEN ReadSteps(files, filepath, i + 1, st)
             ELSE IF ~ReaderAccepts(files, reader, filepath)
             THEN [st EXCEPT !.calls = Append(@, reader),
                             !.outcome = "library_exception"]
             ELSE ReadSteps(files, filepath, i + 1,
                     [st EXCEPT !.calls  = Append(@, reader),
                                !.bound  = TRUE,
                                !.img    = files[Normpath(filepath)].data,
                                !.header = ReaderHeader(reader, @)])

ReadFileResult(files, filepath) ==
    ReadSteps(files, filepath, 1,
        [bound |-> FALSE, img |-> NoData, header |-> "None",
         calls |-> <<>>, outcome |-> "running"])

WriterKind(writer) ==
    CASE writer = "Save_png"   -> "png"
      [] writer = "Save_nifti" -> "nifti"
      [] writer = "Save_gipl"  -> "gipl"
      [] writer = "Save_nrrd"  -> "nrrd"

SaveDispatch ==
    << <<ExtPng,  "Save_png">>,  <<ExtNii,  "Save_nifti">>,
       <<ExtGipl, "Save_gipl">>, <<ExtNrrd, "Save_nrrd">>,
       <<ExtGz,   "Save_gz">> >>

\* The path SaveFile hands to the writers: filepath.replace('.gz', '').
SavePath(filepath) == StrRemove(filepath, ExtGz)

\* One writer. Save_png, Save_nifti, Save_gipl, Save_nrrd write the file;
\* Save_gz reads the file, creates the gzip file beside it and removes it.
WriterStep(st, writer, p, data) ==
    IF writer = "Save_gz"
    THEN IF ~Exists(st.files, p)
         THEN [st EXCEPT !.calls = Append(@, writer),
                         !.outcome = "library_exception"]
         ELSE [st EXCEPT
                 !.calls = Append(@, writer),
                 !.files = Del(Put(@, p \o ExtGz,
                                   [@[Normpath(p)] EXCEPT !.gz = TRUE]), p),
                 !.log   = @ \o << <<"create", Normpath(p \o ExtGz)>>,
                                   <<"remove", Normpath(p)>> >>]
    ELSE IF ~DirExists(p)
         THEN [st EXCEPT !.calls = Append(@, writer),
                         !.outcome = "library_exception"]
         ELSE [st EXCEPT
                 !.calls = Append(@, writer),
                 !.files = Put(@, p, File(WriterKind(writer), FALSE, data)),
                 !.log   = Append(@, <<"write", Normpath(p)>>)]

\* SaveFile, one `if` after the other.
RECURSIVE SaveSteps(_, _, _, _, _)
SaveSteps(ext, p, data, i, st) ==
    IF i > Len(SaveDispatch) THEN [st EXCEPT !.outcome = "returned"]
    ELSE IF ~Contains(ext, SaveDispatch[i][1])
         THEN SaveSteps(ext, p, data, i + 1, st)
         ELSE LET nx == WriterStep(st, SaveDispatch[i][2], p, data)
              IN  IF nx.outcome = "library_exception" THEN nx
                  ELSE SaveSteps(ext, p, data, i + 1, nx)

SaveFileResult(files, filepath, data) ==
    SaveSteps(Basename(filepath), SavePath(filepath), data, 1,
        [files |-> files, calls |-> <<>>, log |-> <<>>,
         outcome |-> "running"])

(***************************************************************************)
(* ReadFile and SaveFile as operations on the file system                  *)
(***************************************************************************)
MaxIOCalls == 2

IODirs == ExistingDirs \cup { <<"q">> }

IONames ==
    { <<"s">> \o ExtNii, <<"s">> \o ExtNii \o ExtGz, <<"s">> \o ExtGipl,
      <<"s">> \o ExtNrrd, <<"s">> \o ExtPng, <<"s">> \o ExtTxt, <<"s">> }

IOPaths == {PathJoin(d, n) : d \in IODirs, n \in IONames}

\* The format a file name ends in, "none" when it ends in no handled one.
FormatOf(name) ==
    CASE EndsWith(name, ExtNii \o ExtGz) -> "nifti_gz"
      [] EndsWith(name, ExtNii)          -> "nifti"
      [] EndsWith(name, ExtGipl)         -> "gipl"
      [] EndsWith(name, ExtNrrd)         -> "nrrd"
      [] EndsWith(name, ExtPng)          -> "png"
      [] OTHER                           -> "none"

KindOfFormat(fmt) == IF fmt = "nifti_gz" THEN "nifti" ELSE fmt

\* A directory tree in which every file holds the format its name says.
PopulatedFS ==
    LET ps == {p \in IOPaths : /\ Dirname(p) \in ExistingDirs
                               /\ FormatOf(Basename(p)) # "none"}
    IN  [p \in ps |-> File(KindOfFormat(FormatOf(Basename(p))),
                           FormatOf(Basename(p)) = "nifti_gz", NoData)]

EmptyFS == [p \in {} |-> File("png", FALSE, NoData)]

NoOp == [name |-> "none", path |-> <<>>, outcome |-> "none", calls |-> <<>>,
         log |-> <<>>, header |-> "None", before |-> EmptyFS]

NoRecon == [filename |-> <<>>, dir |-> <<>>, depth |-> 0,
            outcome |-> "none", img |-> <<>>]

\* k, axis: the arguments; img: the array passed; x: the array returned.
NoShift == [k |-> 0, axis |-> -1, x |-> <<>>, img |-> <<>>]

NoNorm == [label |-> FALSE, called |-> FALSE, nan |-> FALSE, out |-> <<>>]

\* The parts of the state a specification does not use stay as they start.
FilesIdle ==
    /\ fs = EmptyFS
    /\ ioOp = NoOp
    /\ ioCalls = 0
    /\ hist = <<>>
    /\ recon = NoRecon

ShiftIdle == shiftIn = <<>> /\ shiftCall = NoShift

NormIdle == normIn = <<>> /\ normOut = NoNorm

AugIdle == aug = <<>>

PipeIdle ==
    /\ pN = 0 /\ pB = 1 /\ nextIn = 0 /\ mapOut = 0 /\ nBatches = 0
    /\ running = {} /\ finished = {} /\ shufBuf = {}
    /\ batchBuf = <<>> /\ prefetchBuf = <<>> /\ emitted = <<>>

IOInit ==
    /\ fs \in {EmptyFS, PopulatedFS}
    /\ ioOp = NoOp
    /\ ioCalls = 0
    /\ hist = <<>>
    /\ recon = NoRecon
    /\ ShiftIdle
    /\ NormIdle
    /\ AugIdle
    /\ PipeIdle

ReadFile(filepath) ==
    /\ ioCalls < MaxIOCalls
    /\ LET r == ReadFileResult(fs, filepath)
       IN  ioOp' = [name |-> "ReadFile", path |-> filepath,
                    outcome |-> r.outcome, calls |-> r.calls, log |-> <<>>,
                    header |-> r.header, before |-> fs]
    /\ ioCalls' = ioCalls + 1
    /\ UNCHANGED <<fs, sliceVars, shiftVars, normVars, augVars, pipeVars>>

SaveFile(filepath) ==
    /\ ioCalls < MaxIOCalls
    /\ LET r == SaveFileResult(fs, filepath, NoData)
       IN  /\ fs' = r.files
           /\ ioOp' = [name |-> "SaveFile", path |-> filepath,
                       outcome |-> r.outcome, calls |-> r.calls,
                       log |-> r.log, header |-> "None", before |-> fs]
    /\ ioCalls' = ioCalls + 1
    /\ UNCHANGED <<sliceVars, shiftVars, normVars, augVars, pipeVars>>

IONext ==
    \/ \E p \in IOPaths : ReadFile(p)
    \/ \E p \in IOPaths : SaveFile(p)

SpecIO == IOInit /\ [][IONext]_vars

HandledExts == {ExtNii, ExtGipl, ExtNrrd, ExtPng, ExtGz}

NoHandledExt(p) == \A e \in HandledExts : ~Contains(p, e)

IOCalled == ioOp.name \in {"ReadFile", "SaveFile"}

\* C1: a ReadFile or SaveFile call on a path that contains none of .nii,
\* .gipl, .nrrd, .png, .gz ends in an exception raised inside an I/O library:
\* it neither returns normally nor fails in the module's own code.
C1_UnsupportedRaisesFromLibrary ==
    (IOCalled /\ NoHandledExt(ioOp.path))
        => ioOp.outcome = "library_exception"

ReaderOfFormat(fmt) ==
    CASE fmt \in {"nifti", "nifti_gz"} -> "Read_nifti"
      [] fmt = "gipl" -> "Read_gipl"
      [] fmt = "nrrd" -> "Read_nrrd"
      [] fmt = "png"  -> "Read_png"

WriterOfFormat(fmt) ==
    CASE fmt \in {"nifti", "nifti_gz"} -> "Save_nifti"
      [] fmt = "gipl" -> "Save_gipl"
      [] fmt = "nrrd" -> "Save_nrrd"
      [] fmt = "png"  -> "Save_png"

\* The format readers or writers a call invoked (Save_gz compresses, it
\* writes no format).
FormatCalls(calls) == SelectSeq(calls, LAMBDA c : c # "Save_gz")

\* C2: on a path whose file name ends in one handled format, ReadFile calls
\* the reader of that format and no other, SaveFile the writer of that format
\* and no other, whatever the directories of the path are called; ReadFile
\* returns header None exactly for PNG.
C2_OneReaderOneWriterByFileName ==
    LET fmt == FormatOf(Basename(ioOp.path))
    IN  (IOCalled /\ fmt # "none") =>
            /\ (ioOp.name = "ReadFile" /\ Exists(ioOp.before, ioOp.path)) =>
                   /\ ioOp.calls = <<ReaderOfFormat(fmt)>>
                   /\ ioOp.outcome = "returned" =>
                          (ioOp.header = "None" <=> fmt = "png")
            /\ ioOp.name = "SaveFile" =>
                   FormatCalls(ioOp.calls) = <<WriterOfFormat(fmt)>>

\* C8: SaveFile on a name ending in .nii.gz writes the uncompressed file,
\* then creates the gzip file, then removes the uncompressed file; when it
\* returns the gzip file is at the path the caller passed, the uncompressed
\* file is gone, and no other path was created, overwritten or removed.
C8_SaveNiiGzAtCallersPath ==
    (/\ ioOp.name = "SaveFile"
     /\ FormatOf(Basename(ioOp.path)) = "nifti_gz"
     /\ ioOp.outcome = "returned")
    => LET p   == Normpath(ioOp.path)
           log == ioOp.log
       IN  /\ Len(log) = 3
           /\ log[1][1] = "write" /\ log[2][1] = "create"
           /\ log[3][1] = "remove"
           /\ log[1][2] = log[3][2]
           /\ log[2][2] = p
           /\ p \in DOMAIN fs /\ fs[p].gz
           /\ log[1][2] \notin DOMAIN fs
           /\ \A q \in ((DOMAIN fs) \cup (DOMAIN ioOp.before))
                         \ {p, log[1][2]} :
                  /\ q \in DOMAIN fs /\ q \in DOMAIN ioOp.before
                  /\ fs[q] = ioOp.before[q]

(***************************************************************************)
(* Deconstruction and Reconstruction                                       *)
(***************************************************************************)
MaxDepth == 2
MaxSliceOps == 3

\* The data of slice z of the scan read from filename, resized by Resize_2D.
SliceData(filename, z) == <<filename, z>>

\* img[:,:,z] of np.zeros(size).
ZeroSlice == <<<<>>, -1>>

\* The path Deconstruction writes slice z to.
SliceOut(filename, outdir, z) ==
    outdir \o <<"/">> \o SplitFirst(Basename(filename), {"."})
           \o <<"_">> \o Str(z) \o ExtPng

\* Deconstruction: for z in range(img.shape[2]), SaveFile of slice z. st: the
\* file system, the paths written so far and the outcome.
RECURSIVE DeconSteps(_, _, _, _, _)
DeconSteps(filename, outdir, depth, z, st) ==
    IF z >= depth THEN [st EXCEPT !.outcome = "returned"]
    ELSE LET r == SaveFileResult(st.files, SliceOut(filename, outdir, z),
                                 SliceData(filename, z))
         IN  IF r.outcome # "returned"
             THEN [st EXCEPT !.files = r.files, !.outcome = r.outcome]
             ELSE DeconSteps(filename, outdir, depth, z + 1,
                     [st EXCEPT !.files = r.files,
                                !.written = @ \o
                                    [i \in 1..Len(r.log) |-> r.log[i][2]]])

DeconstructionResult(files, filename, outdir, depth) ==
    DeconSteps(filename, outdir, depth, 0,
        [files |-> files, written |-> <<>>, outcome |-> "running"])

\* glob.iglob(pattern) for a pattern dir/prefix*: the files of dir whose name
\* starts with prefix, each as dir/name, in no particular order.
GlobPrefix(files, pattern) ==
    LET dir    == Dirname(pattern)
        prefix == SubSeq(Basename(pattern), 1, Len(Basename(pattern)) - 1)
    IN  {q \in DOMAIN files :
            Dirname(q) = dir /\ StartsWith(Basename(q), prefix)}

\* re.split('_|\.', slice_path)[-2]; IndexError when there is one piece.
SliceNbrField(slice_path) ==
    LET pieces == ReSplit(slice_path, {"_", "."})
    IN  IF Len(pieces) < 2 THEN <<>> ELSE pieces[Len(pieces) - 1]

\* One pass of the loop body of Reconstruction returns without raising:
\* ReadFile returns, int() parses, and the index is inside the volume.
SliceLoads(files, slice_path, depth) ==
    /\ ReadFileResult(files, slice_path).outcome = "returned"
    /\ IntParses(SliceNbrField(slice_path))
    /\ ParseInt(SliceNbrField(slice_path)) < depth

\* The slice files whose parsed number is z.
SlicesAt(files, matches, z) ==
    {q \in matches : ParseInt(SliceNbrField(q)) = z}

GlobPattern(filename, dir) == Normpath(dir \o <<"/">> \o filename \o <<"*">>)

\* The volumes Reconstruction can return: slice z holds the data of one of
\* the matching files numbered z (the one glob yields last), zeros if none.
ReconVolumes(files, filename, dir, depth) ==
    LET matches == GlobPrefix(files, GlobPattern(filename, dir))
        all     == {ReadFileResult(files, q).img : q \in matches}
                       \cup {ZeroSlice}
    IN  {v \in [0..(depth - 1) -> all] :
            \A z \in 0..(depth - 1) :
                IF SlicesAt(files, matches, z) = {} THEN v[z] = ZeroSlice
                ELSE \E q \in SlicesAt(files, matches, z) :
                         v[z] = ReadFileResult(files, q).img}

ReconRaises(files, filename, dir, depth) ==
    \E q \in GlobPrefix(files, GlobPattern(filename, dir)) :
        ~SliceLoads(files, q, depth)

ScanFiles ==
    { <<"s", "1">> \o ExtNii,
      <<"i", "n", "/", "s", "1", "0">> \o ExtNii \o ExtGz,
      <<"a", "_", "1">> \o ExtGipl }

ScanBase(filename) == SplitFirst(Basename(filename), {"."})

OutDirs == ExistingDirs \cup { <<".", "/", "d">> }

SliceInit ==
    /\ FilesIdle
    /\ ShiftIdle
    /\ NormIdle
    /\ AugIdle
    /\ PipeIdle

Deconstruction(filename, outdir, depth) ==
    /\ Len(hist) < MaxSliceOps
    /\ LET r == DeconstructionResult(fs, filename, outdir, depth)
       IN  /\ fs' = r.files
           /\ hist' = Append(hist,
                 [op |-> "Deconstruction", filename |-> filename,
                  dir |-> outdir, depth |-> depth, outcome |-> r.outcome,
                  written |-> r.written])
    /\ UNCHANGED <<ioOp, ioCalls, recon, shiftVars, normVars, augVars, pipeVars>>

Reconstruction(filename, dir, depth) ==
    /\ Len(hist) < MaxSliceOps
    /\ IF ReconRaises(fs, filename, dir, depth)
       THEN recon' = [filename |-> filename, dir |-> dir, depth |-> depth,
                      outcome |-> "raised", img |-> <<>>]
       ELSE \E v \in ReconVolumes(fs, filename, dir, depth) :
                recon' = [filename |-> filename, dir |-> dir,
                          depth |-> depth, outcome |-> "returned", img |-> v]
    /\ hist' = Append(hist,
          [op |-> "Reconstruction", filename |-> filename, dir |-> dir,
           depth |-> depth, outcome |-> recon'.outcome, written |-> <<>>])
    /\ UNCHANGED <<fs, ioOp, ioCalls, shiftVars, normVars, augVars, pipeVars>>

SliceNext ==
    \/ \E f \in ScanFiles, o \in OutDirs, d \in 1..MaxDepth :
           Deconstruction(f, o, d)
    \/ \E f \in ScanFiles, o \in OutDirs, d \in 1..MaxDepth :
           Reconstruction(ScanBase(f), o, d)

SpecSlices == SliceInit /\ [][SliceNext]_vars

\* C3: Deconstruction of a volume of depth D writes the D files
\* outdir/base_z.png, and a following Reconstruction(base, outdir, img) reads
\* each, parses the z it was written with and stores it at img[:,:,z]: every
\* slice z is filled from the slice cut at z, whatever '_' and '.' characters
\* base and outdir contain.
C3_SliceIndexRoundTrip ==
    (/\ Len(hist) = 2
     /\ hist[1].op = "Deconstruction"
     /\ hist[2].op = "Reconstruction"
     /\ hist[2].filename = ScanBase(hist[1].filename)
     /\ hist[2].dir = hist[1].dir
     /\ hist[2].depth = hist[1].depth)
    => /\ hist[1].outcome = "returned"
       /\ hist[1].written =
              [i \in 1..hist[1].depth |->
                  Normpath(SliceOut(hist[1].filename, hist[1].dir, i - 1))]
       /\ recon.outcome = "returned"
       /\ \A z \in 0..(hist[1].depth - 1) :
              recon.img[z] = SliceData(hist[1].filename, z)

\* C4: the volume Reconstruction(filename, dir, original_img) returns has the
\* depth of original_img, and its slice z is the content of dir/filename_z.png
\* when that file exists and zeros when it does not: no file of another scan
\* gets into it.
C4_ReconstructionFromOwnSlicesOnly ==
    (recon.outcome = "returned") =>
        /\ DOMAIN recon.img = 0..(recon.depth - 1)
        /\ \A z \in 0..(recon.depth - 1) :
              LET own == Normpath(recon.dir \o <<"/">> \o recon.filename
                                  \o <<"_">> \o Str(z) \o ExtPng)
              IN  recon.img[z] =
                      IF own \in DOMAIN fs THEN fs[own].data ELSE ZeroSlice

(***************************************************************************)
(* _shift                                                                  *)
(***************************************************************************)
MaxH == 2
MaxW == 2
MaxShift == 3

\* Sample pixel values; a pixel stands for the vector of its channels, which
\* np.roll and the slices x[..., :] carry along whole.
Pixels == {0, 1, 2}

\* An array of shape (H, W, C): row i, column j, both counted from 0.
Images(h, w) == [0..(h - 1) -> [0..(w - 1) -> Pixels]]

Height(a) == Cardinality(DOMAIN a)
Width(a)  == Cardinality(DOMAIN a[0])
AxisLen(a, axis) == IF axis = 0 THEN Height(a) ELSE Width(a)

\* np.roll(a, k, axis): the element at index i moves to (i + k) mod n.
Roll(a, k, axis) ==
    [i \in DOMAIN a |-> [j \in DOMAIN a[i] |->
        IF axis = 0 THEN a[(i - k) % Height(a)][j]
                    ELSE a[i][(j - k) % Width(a)]]]

\* The indices the slice [:k] (k > 0) or [k:] (k < 0) selects on an axis of
\* length n, with Python's clipping of out-of-range bounds.
SliceIndicesOneForm(n, k) == IF k = 0 THEN {} ELSE {i \in 0..(n - 1) : i < k}

SliceIndices(n, k) ==
    IF k > 0 THEN {i \in 0..(n - 1) : i < k}
    ELSE IF k < 0 THEN {i \in 0..(n - 1) : i >= n + k}
    ELSE {}

\* x[:k,:,:] = 0, x[k:,:,:] = 0, x[:,:k,:] = 0 or x[:,k:,:] = 0.
ZeroFill(x, k, axis) ==
    [i \in DOMAIN x |-> [j \in DOMAIN x[i] |->
        IF (IF axis = 0 THEN i ELSE j) \in SliceIndices(AxisLen(x, axis), k)
        THEN 0 ELSE x[i][j]]]

\* _shift(img, k, axis): the array returned, and img as the call leaves it
\* (np.roll returns a new array, which the slices then write to).
ShiftResult(img, k, axis) ==
    [x |-> ZeroFill(Roll(img, k, axis), k, axis), img |-> img]

ShiftInit ==
    /\ \E h \in 1..MaxH, w \in 1..MaxW : shiftIn \in Images(h, w)
    /\ shiftCall = NoShift
    /\ FilesIdle
    /\ NormIdle
    /\ AugIdle
    /\ PipeIdle

Shift(k, axis) ==
    /\ shiftCall.axis = -1
    /\ LET r == ShiftResult(shiftIn, k, axis)
       IN  /\ shiftCall' = [k |-> k, axis |-> axis, x |-> r.x, img |-> shiftIn]
           /\ shiftIn' = r.img
    /\ UNCHANGED <<fileVars, normVars, augVars, pipeVars>>

ShiftNext == \E k \in (-MaxShift)..MaxShift, axis \in {0, 1} : Shift(k, axis)

SpecShift == ShiftInit /\ [][ShiftNext]_vars

\* The element of a at index (i, j) moved back by k along axis, 0 when that
\* falls outside a.
Translated(a, k, axis, i, j) ==
    LET si == IF axis = 0 THEN i - k ELSE i
        sj == IF axis = 1 THEN j - k ELSE j
    IN  IF si \in DOMAIN a /\ sj \in DOMAIN a[0] THEN a[si][sj] ELSE 0

\* C9: _shift(img, k, axis) is the translation of img by k along axis with
\* zeros shifted in: r[i] = img[i - k] where 0 <= i - k < n and 0 elsewhere,
\* for k = 0, k < 0 and |k| >= n too; r has the shape of img and img is left
\* as it was.
C9_ShiftIsZeroFilledTranslation ==
    (shiftCall.axis # -1) =>
        /\ DOMAIN shiftCall.x = DOMAIN shiftIn
        /\ \A i \in DOMAIN shiftIn :
              /\ DOMAIN shiftCall.x[i] = DOMAIN shiftIn[i]
              /\ \A j \in DOMAIN shiftIn[i] :
                    shiftCall.x[i][j] =
                        Translated(shiftCall.img, shiftCall.k,
                                   shiftCall.axis, i, j)
        /\ shiftCall.img = shiftIn

\* C9's case: a negative shift along axis 1 that moved a non-zero pixel one
\* column down and zeroed the column it left, with no wrap-around.
C9_Witness ==
    /\ shiftCall.axis = 1
    /\ shiftCall.k = -1
    /\ Width(shiftIn) = 2
    /\ shiftIn[0][1] # 0
    /\ shiftCall.x[0][0] = shiftIn[0][1]
    /\ shiftCall.x[0][1] = 0

(***************************************************************************)
(* ProcessDataset                                                          *)
(***************************************************************************)
MaxPixels == 3

\* Sample intensities of the file read (NIfTI data are float64 and may be
\* negative); 127 and 128 lie on either side of the label threshold.
Intensities == {-2, -1, 0, 1, 3, 127, 128}

RECURSIVE SeqsUpTo(_, _)
SeqsUpTo(S, n) ==
    IF n = 0 THEN {<<>>}
    ELSE LET shorter == SeqsUpTo(S, n - 1)
         IN  shorter \cup {Append(q, v) : q \in {t \in shorter : Len(t) = n - 1},
                                          v \in S}

SeqRange(q) == {q[i] : i \in 1..Len(q)}

\* np.uint8(t) for the float t = num / den (den > 0): truncation inside
\* 0..255. A negative t is outside uint8 and the C conversion is undefined:
\* builds either wrap modulo 256 or saturate at 0.
Uint8(num, den) ==
    IF num >= 0 THEN {(num \div den) % 256}
    ELSE {(-((-num) \div den)) % 256, 0}

\* np.uint8(nan): undefined too; the builds in use give 0.
Uint8OfNan == {0}

\* The values np.float32(np.uint8(255*File))/255 can take at one pixel v, in
\* units of 1/255, for label = False. With np.amax(File) > 0 the pixel is
\* first rescaled by (File - min) / (max - min), which is 0/0 = nan on a
\* constant image.
NormalizedPixel(v, mn, mx) ==
    IF mx > 0
    THEN IF mx = mn THEN Uint8OfNan ELSE Uint8(255 * (v - mn), mx - mn)
    ELSE Uint8(255 * v, 1)

\* The label branch: File[File<127.5]=0 and then File[File>=127.5]=1, on
\* integers v < 127.5 iff v <= 127.
LabelPixel(v) ==
    LET a == IF v <= 127 THEN 0 ELSE v
    IN  IF a >= 128 THEN 1 ELSE a

NormInit ==
    /\ normIn \in (SeqsUpTo(Intensities, MaxPixels) \ {<<>>})
    /\ normOut = NoNorm
    /\ FilesIdle
    /\ ShiftIdle
    /\ AugIdle
    /\ PipeIdle

ProcessDatasetImage ==
    /\ ~normOut.called
    /\ LET mn == SetMin(SeqRange(normIn))
           mx == SetMax(SeqRange(normIn))
           vals == UNION {NormalizedPixel(normIn[i], mn, mx) :
                              i \in 1..Len(normIn)}
       IN  \E out \in [1..Len(normIn) -> vals] :
               /\ \A i \in 1..Len(normIn) :
                      out[i] \in NormalizedPixel(normIn[i], mn, mx)
               /\ normOut' = [label |-> FALSE, called |-> TRUE,
                              nan |-> (mx > 0 /\ mx = mn), out |-> out]
    /\ UNCHANGED <<normIn, fileVars, shiftVars, augVars, pipeVars>>

ProcessDatasetLabel ==
    /\ ~normOut.called
    /\ normOut' = [label |-> TRUE, called |-> TRUE, nan |-> FALSE,
                   out |-> [i \in 1..Len(normIn) |-> LabelPixel(normIn[i])]]
    /\ UNCHANGED <<normIn, fileVars, shiftVars, augVars, pipeVars>>

NormNext == ProcessDatasetImage \/ ProcessDatasetLabel

SpecNorm == NormInit /\ [][NormNext]_vars

\* C10: ProcessDataset(file_path, label=False) normalises: on an image with
\* two distinct values or more (its maximum may be 0 or negative) the minimum
\* maps to 0 and the maximum to 1 (255 units of 1/255), every output is a
\* multiple of 1/255 in [0, 1] and the map is monotone; a constant image gives
\* a constant output without dividing by zero.
C10_NormalizesToUnitRange ==
    (normOut.called /\ ~normOut.label) =>
        LET mn == SetMin(SeqRange(normIn))
            mx == SetMax(SeqRange(normIn))
            I  == 1..Len(normIn)
        IN  /\ \A i \in I : normOut.out[i] \in 0..255
            /\ mn # mx =>
                  /\ \A i \in I : normIn[i] = mn => normOut.out[i] = 0
                  /\ \A i \in I : normIn[i] = mx => normOut.out[i] = 255
                  /\ \A i, j \in I : normIn[i] <= normIn[j]
                                        => normOut.out[i] <= normOut.out[j]
            /\ mn = mx =>
                  /\ ~normOut.nan
                  /\ \A i, j \in I : normOut.out[i] = normOut.out[j]

(***************************************************************************)
(* augment                                                                 *)
(***************************************************************************)
MaxAugCalls == 2

\* Sample values of random.random(), each a fraction <<num, den>> in [0, 1):
\* the least value 0 and one close to 1.
RandomSamples == { <<0, 1>>, <<999, 1000>> }

\* random.uniform(a, b) = a + (b - a) * random(), as a fraction. In double
\* arithmetic the sum never rounds up to b for the ranges augment uses (for
\* random() = 1 - 2^-53 it is 360 - 2^-44, 30 - 2^-47 and 15 - 2^-49), so the
\* exact value truncates as the float does.
Uniform(a, b, r) == <<a * r[2] + (b - a) * r[1], r[2]>>

\* int(q): truncation towards zero.
Trunc(q) == IF q[1] >= 0 THEN q[1] \div q[2] ELSE -((-q[1]) \div q[2])

\* The n-th seed augment draws, from the value r of random(): seed_rot,
\* seed_shift0, seed_shift1, seed_shear (a fraction, uniform(-0.2, 0.2) in
\* tenths) and seed_zoom.
DrawSeed(n, r) ==
    CASE n = 1 -> Trunc(Uniform(0, 360, r))
      [] n = 2 -> Trunc(Uniform(-30, 30, r))
      [] n = 3 -> Trunc(Uniform(-30, 30, r))
      [] n = 4 -> <<Uniform(-2, 2, r)[1], 10 * r[2]>>
      [] n = 5 -> Trunc(Uniform(0, 15, r))

NumSeeds == 5

NewCall == [seeds |-> <<>>, x |-> <<>>, y |-> <<>>]

\* The seeds aug_layers gets for the image and for the label of call c: the
\* locals of that call.
ImageParams(c) == aug[c].seeds

LabelParamsShared(c) ==
    LET others == {d \in DOMAIN aug : d # c /\ Len(aug[d].seeds) = NumSeeds}
    IN  IF others = {} THEN aug[c].seeds
        ELSE aug[CHOOSE d \in others : TRUE].seeds

LabelParams(c) == aug[c].seeds

AugInit ==
    /\ aug = [c \in 1..MaxAugCalls |-> NewCall]
    /\ FilesIdle
    /\ ShiftIdle
    /\ NormIdle
    /\ PipeIdle

\* One of the five random.uniform lines of call c.
AugDraw(c) ==
    /\ Len(aug[c].seeds) < NumSeeds
    /\ \E r \in RandomSamples :
           aug' = [aug EXCEPT ![c].seeds =
                       Append(@, DrawSeed(Len(@) + 1, r))]
    /\ UNCHANGED <<fileVars, shiftVars, normVars, pipeVars>>

\* x = aug_layers(x, seeds, is_label=False)
AugImage(c) ==
    /\ Len(aug[c].seeds) = NumSeeds
    /\ aug[c].x = <<>>
    /\ aug' = [aug EXCEPT ![c].x = ImageParams(c)]
    /\ UNCHANGED <<fileVars, shiftVars, normVars, pipeVars>>

\* y = aug_layers(y, seeds, is_label=True)
AugLabel(c) ==
    /\ aug[c].x # <<>>
    /\ aug[c].y = <<>>
    /\ aug' = [aug EXCEPT ![c].y = LabelParams(c)]
    /\ UNCHANGED <<fileVars, shiftVars, normVars, pipeVars>>

AugNext == \E c \in 1..MaxAugCalls : AugDraw(c) \/ AugImage(c) \/ AugLabel(c)

SpecAugment == AugInit /\ [][AugNext]_vars

\* The seeds drawn so far lie in their ranges, the shifts in lo..hi.
SeedsInRange(seeds, lo, hi) ==
    \A n \in 1..Len(seeds) :
        CASE n = 1 -> seeds[n] \in 0..359
          [] n = 2 -> seeds[n] \in lo..hi
          [] n = 3 -> seeds[n] \in lo..hi
          [] n = 4 -> /\ -2 * seeds[n][2] <= 10 * seeds[n][1]
                      /\ 10 * seeds[n][1] <= 2 * seeds[n][2]
          [] n = 5 -> seeds[n] \in 0..14

\* Every call applies to its image and to its label the five seeds it drew.
SameParamsForImageAndLabel ==
    \A c \in DOMAIN aug :
        /\ aug[c].x # <<>> => aug[c].x = aug[c].seeds
        /\ aug[c].y # <<>> => aug[c].y = aug[c].x

\* C7 as stated: image and label of a call get the same five parameters, the
\* call's own, under concurrent calls too; rotation in 0..359, shifts in
\* -29..29, shear in [-0.2, 0.2], zoom in 0..14.
C7_SameParamsShiftsWithin29 ==
    /\ SameParamsForImageAndLabel
    /\ \A c \in DOMAIN aug : SeedsInRange(aug[c].seeds, -29, 29)

\* C7 amended: as C7, with the shifts in -30..29: int(random.uniform(-30, 30))
\* is -30 when random() returns 0.0.
C7_SameParamsShiftsFromMinus30 ==
    /\ SameParamsForImageAndLabel
    /\ \A c \in DOMAIN aug : SeedsInRange(aug[c].seeds, -30, 29)

\* C7's case: two calls in flight with different seeds, one of which drew
\* the shift -30; one has transformed its image and label, the other its
\* image only.
C7_Witness ==
    /\ DOMAIN aug # {}
    /\ \E c, d \in DOMAIN aug :
          /\ aug[c].y # <<>>
          /\ aug[d].x # <<>> /\ aug[d].y = <<>>
          /\ aug[c].seeds # aug[d].seeds
          /\ aug[c].seeds[2] = -30

(***************************************************************************)
(* create_dataset: from_tensor_slices, map(augment), batch, shuffle,       *)
(* prefetch                                                                *)
(***************************************************************************)
MaxN == 5
MaxBatch == 2
\* tf.data.AUTOTUNE picks the number of parallel calls and the depth of the
\* prefetch buffer at run time.
MaxParallel == 2
MaxPrefetch == 1

\* dataset.shuffle(4*BATCH_SIZE)
ShuffleFactor == 4

ShuffleBufferSizeDouble(b) == 2 * ShuffleFactor * b

ShuffleBufferSize(b) == ShuffleFactor * b

\* What augment returns for the input pair (x[i], y[i]): the augmented image
\* and the augmented label, each named by the index it came from.
AugmentedPair(i) == <<i, i>>

\* batch(BATCH_SIZE) closes a batch when it holds pB elements, and, with
\* drop_remainder left False, when the input ends on a batch begun.
BatchCompleteDropRemainder(buf, upstreamDone) == Len(buf) = pB

BatchComplete(buf, upstreamDone) ==
    Len(buf) = pB \/ (upstreamDone /\ Len(buf) > 0)

MapExhausted == mapOut = pN

BatchExhausted == MapExhausted /\ batchBuf = <<>>

PipeInit ==
    /\ pN \in 0..MaxN
    /\ pB \in 1..MaxBatch
    /\ nextIn = 0 /\ mapOut = 0 /\ nBatches = 0
    /\ running = {} /\ finished = {} /\ shufBuf = {}
    /\ batchBuf = <<>> /\ prefetchBuf = <<>> /\ emitted = <<>>
    /\ FilesIdle
    /\ ShiftIdle
    /\ NormIdle
    /\ AugIdle

nonPipeVars == <<fileVars, shiftVars, normVars, augVars>>

\* The parallel map starts augment on the next input pair.
MapStart ==
    /\ nextIn < pN
    /\ Cardinality(running \cup finished) < MaxParallel
    /\ running' = running \cup {nextIn}
    /\ nextIn' = nextIn + 1
    /\ UNCHANGED <<pN, pB, finished, mapOut, batchBuf, nBatches, shufBuf,
                   prefetchBuf, emitted, nonPipeVars>>

\* An augment call returns; the calls return in any order.
MapFinish(i) ==
    /\ i \in running
    /\ running' = running \ {i}
    /\ finished' = finished \cup {i}
    /\ UNCHANGED <<pN, pB, nextIn, mapOut, batchBuf, nBatches, shufBuf,
                   prefetchBuf, emitted, nonPipeVars>>

\* batch takes the next element of the map, which yields its results in the
\* order of its input.
BatchTake ==
    /\ mapOut \in finished
    /\ Len(batchBuf) < pB
    /\ batchBuf' = Append(batchBuf, AugmentedPair(mapOut))
    /\ finished' = finished \ {mapOut}
    /\ mapOut' = mapOut + 1
    /\ UNCHANGED <<pN, pB, nextIn, running, nBatches, shufBuf, prefetchBuf,
                   emitted, nonPipeVars>>

\* shuffle takes a complete batch into its buffer while the buffer has room.
ShuffleFill ==
    /\ BatchComplete(batchBuf, MapExhausted)
    /\ Cardinality(shufBuf) < ShuffleBufferSize(pB)
    /\ shufBuf' = shufBuf \cup {[pos |-> nBatches, items |-> batchBuf]}
    /\ batchBuf' = <<>>
    /\ nBatches' = nBatches + 1
    /\ UNCHANGED <<pN, pB, nextIn, running, finished, mapOut, prefetchBuf,
                   emitted, nonPipeVars>>

\* shuffle yields an element of its buffer chosen at random, once the buffer
\* is full or its input has ended; prefetch queues it.
ShuffleEmit(b) ==
    /\ b \in shufBuf
    /\ Cardinality(shufBuf) = ShuffleBufferSize(pB) \/ BatchExhausted
    /\ Len(prefetchBuf) < MaxPrefetch
    /\ shufBuf' = shufBuf \ {b}
    /\ prefetchBuf' = Append(prefetchBuf, b)
    /\ UNCHANGED <<pN, pB, nextIn, running, finished, mapOut, batchBuf,
                   nBatches, emitted, nonPipeVars>>

\* The consumer takes the next batch.
Consume ==
    /\ prefetchBuf # <<>>
    /\ emitted' = Append(emitted, Head(prefetchBuf))
    /\ prefetchBuf' = Tail(prefetchBuf)
    /\ UNCHANGED <<pN, pB, nextIn, running, finished, mapOut, batchBuf,
                   nBatches, shufBuf, nonPipeVars>>

PipeNext ==
    \/ MapStart
    \/ \E i \in 0..(MaxN - 1) : MapFinish(i)
    \/ BatchTake
    \/ ShuffleFill
    \/ \E b \in shufBuf : ShuffleEmit(b)
    \/ Consume

SpecPipeline == PipeInit /\ [][PipeNext]_vars

PipeDone ==
    /\ nextIn = pN /\ running = {} /\ finished = {} /\ BatchExhausted
    /\ shufBuf = {} /\ prefetchBuf = <<>>

\* The stages of tf.data run whenever they can: a pass that is not over goes
\* on.
FairSpecPipeline == SpecPipeline /\ WF_vars(PipeNext)

PipelineTerminates == <>PipeDone

\* ceil(N / BATCH_SIZE)
NumBatches == (pN + pB - 1) \div pB

\* The pairs emitted so far, as <<batch number, place in the batch>>.
EmittedPlaces ==
    UNION {{<<k, i>> : i \in 1..Len(emitted[k].items)} :
              k \in 1..Len(emitted)}

EmittedPair(ki) == emitted[ki[1]].items[ki[2]]

\* C5: in one pass, under every interleaving of the map workers, the shuffle
\* buffer and the prefetcher, every input pair is emitted once and no more,
\* the image of index i comes with the label of index i, every batch but at
\* most one holds BATCH_SIZE pairs, and the pass ends, after ceil(N /
\* BATCH_SIZE) batches.
C5_EveryPairOnceInBatches ==
    /\ \A ki \in EmittedPlaces : EmittedPair(ki)[1] = EmittedPair(ki)[2]
    /\ \A ki, lj \in EmittedPlaces :
           EmittedPair(ki)[1] = EmittedPair(lj)[1] => ki = lj
    /\ Len(emitted) <= NumBatches
    /\ PipeDone =>
           /\ {EmittedPair(ki)[1] : ki \in EmittedPlaces} = 0..(pN - 1)
           /\ Len(emitted) = NumBatches
           /\ Cardinality({k \in 1..Len(emitted) :
                              Len(emitted[k].items) # pB}) <= 1
    /\ ~PipeDone => ENABLED PipeNext

\* C5's case: a pass over 5 pairs in batches of 2 that ended, the short last
\* batch emitted first.
C5_Witness ==
    /\ PipeDone /\ pN = 5 /\ pB = 2
    /\ emitted[1].items = <<AugmentedPair(4)>>

\* The pairs of the batch formed at input position pos.
ConsecutivePairs(pos) ==
    LET lo == pos * pB
        hi == IF lo + pB <= pN THEN lo + pB - 1 ELSE pN - 1
    IN  [i \in 1..(hi - lo + 1) |-> AugmentedPair(lo + i - 1)]

\* Every emitted batch holds consecutive input pairs, and no batch twice.
BatchesAreConsecutiveRuns ==
    /\ \A k \in 1..Len(emitted) :
           /\ emitted[k].pos \in 0..(NumBatches - 1)
           /\ emitted[k].items = ConsecutivePairs(emitted[k].pos)
    /\ \A k, l \in 1..Len(emitted) :
           emitted[k].pos = emitted[l].pos => k = l

\* C6 as stated: map, batch, shuffle, prefetch in this order, so every
\* emitted batch is a run of consecutive input pairs j*B .. min((j+1)*B, N)-1
\* and only the order of batches changes; a batch is emitted at most
\* 4*BATCH_SIZE-1 batch positions later than the place it entered at.
C6_BatchEmittedAtMost4BLater ==
    /\ BatchesAreConsecutiveRuns
    /\ \A k \in 1..Len(emitted) :
           (k - 1) - emitted[k].pos <= ShuffleFactor * pB - 1

\* C6 amended: the batches are runs of consecutive input pairs and only their
\* order changes; a batch is emitted at most 4*BATCH_SIZE-1 batch positions
\* EARLIER than the place it entered at (it overtakes at most 4*BATCH_SIZE-1
\* batches that entered before it). How much later it is emitted has no such
\* bound: it may stay in the buffer until the input ends.
C6_BatchEmittedAtMost4BEarlier ==
    /\ BatchesAreConsecutiveRuns
    /\ \A k \in 1..Len(emitted) :
           emitted[k].pos - (k - 1) <= ShuffleFactor * pB - 1

\* C6's case: a finished pass in which one batch was emitted exactly
\* 4*BATCH_SIZE-1 positions early and another more than that late.
C6_Witness ==
    /\ PipeDone
    /\ \E k \in 1..Len(emitted) :
           emitted[k].pos - (k - 1) = ShuffleFactor * pB - 1
    /\ \E k \in 1..Len(emitted) :
           (k - 1) - emitted[k].pos > ShuffleFactor * pB - 1

====
